---- MODULE Spec2Model ----
(***************************************************************************)
(* A model of the MLS delivery service (src/src/main.rs): the key-package  *)
(* directory and the group registry behind their two tokio RwLocks, the    *)
(* dispatcher handle_message, and the per-connection loop handle_client    *)
(* with the bytes of each connection in flight.                            *)
(***************************************************************************)
EXTENDS Naturals, Sequences, FiniteSets, TLC

VARIABLES
    key_packages,   \* DeliveryService.key_packages: HashMap<ClientId, Vec<u8>>
    groups,         \* DeliveryService.groups: HashMap<GroupId, GroupState>
    lock,           \* the two RwLocks: readers, writer and FIFO wait queue of each
    pc,             \* where each connection's handle_client task stands
    inbuf,          \* bytes sent by the peer of each connection and not yet read
    peerClosed,     \* the peer has closed its sending side
    msg,            \* the request handle_message is working on (Option)
    response,       \* the response handle_client is about to write (Option)
    outbuf,         \* bytes written to each connection
    sent,           \* history: the requests each peer has sent, in order
    dispatched,     \* history: the requests handed to handle_message, in order
    opHist          \* history: the mutations in the order they got their write lock

vars == <<key_packages, groups, lock, pc, inbuf, peerClosed, msg, response,
          outbuf, sent, dispatched, opHist>>

----------------------------------------------------------------------------
(* Bounds and input sets *)

MaxReqs == 3        \* requests sent over all connections

Conns == {"A", "B"}
\* The connections the listener may accept in all; most peers use two of them.
Streams == Conns \cup {"C"}
ClientIds == {"alice", "bob"}
JoinClientIds == {"alice", "bob", "carol"}
GroupIds == {"g1"}
Bundles == {<<1>>, <<2>>}
Payloads == {<<1, 2, 3>>}
Kinds == {"Application", "Commit"}

\* let mut buffer = [0; 8192]
BufferSize == 8192

\* enum MlsMessageType
MlsMessageType == {"Welcome", "Add", "Application", "Commit", "Proposal"}

\* Option<T>
None == <<>>
Some(v) == <<v>>

----------------------------------------------------------------------------
(* enum DeliveryMessage, #[serde(tag = "type")]: one record per variant.     *)
(* Strings built with format! are kept as the tuple of their parts.          *)

StoreKeyPackageMsg(client_id, key_package) ==
    [type |-> "StoreKeyPackage", client_id |-> client_id, key_package |-> key_package]
FetchKeyPackageMsg(client_id) == [type |-> "FetchKeyPackage", client_id |-> client_id]
ListKeyPackagesMsg == [type |-> "ListKeyPackages"]
CreateGroupMsg(group_id, creator_id) ==
    [type |-> "CreateGroup", group_id |-> group_id, creator_id |-> creator_id]
JoinGroupMsg(group_id, client_id) ==
    [type |-> "JoinGroup", group_id |-> group_id, client_id |-> client_id]
RelayMessageMsg(group_id, sender_id, message, message_type) ==
    [type |-> "RelayMessage", group_id |-> group_id, sender_id |-> sender_id,
     message |-> message, message_type |-> message_type]
KeyPackageResponse(client_id, key_package) ==
    [type |-> "KeyPackageResponse", client_id |-> client_id, key_package |-> key_package]
KeyPackageListResponse(clients) == [type |-> "KeyPackageListResponse", clients |-> clients]
GroupResponse(group_id, members) ==
    [type |-> "GroupResponse", group_id |-> group_id, members |-> members]
MessageResponse(success, message) ==
    [type |-> "MessageResponse", success |-> success, message |-> message]
Error(message) == [type |-> "Error", message |-> message]

\* The fields serde requires of each variant (an Option field may be left out).
RequiredFields(tag) ==
    CASE tag = "StoreKeyPackage" -> {"type", "client_id", "key_package"}
      [] tag = "FetchKeyPackage" -> {"type", "client_id"}
      [] tag = "ListKeyPackages" -> {"type"}
      [] tag = "CreateGroup" -> {"type", "group_id", "creator_id"}
      [] tag = "JoinGroup" -> {"type", "group_id", "client_id"}
      [] tag = "RelayMessage" -> {"type", "group_id", "sender_id", "message", "message_type"}
      [] tag = "KeyPackageResponse" -> {"type", "client_id"}
      [] tag = "KeyPackageListResponse" -> {"type", "clients"}
      [] tag = "GroupResponse" -> {"type", "group_id", "members"}
      [] tag = "MessageResponse" -> {"type", "success", "message"}
      [] tag = "Error" -> {"type", "message"}

VariantTags ==
    {"StoreKeyPackage", "FetchKeyPackage", "ListKeyPackages", "CreateGroup", "JoinGroup",
     "RelayMessage", "KeyPackageResponse", "KeyPackageListResponse", "GroupResponse",
     "MessageResponse", "Error"}

RequestTags ==
    {"StoreKeyPackage", "FetchKeyPackage", "ListKeyPackages", "CreateGroup", "JoinGroup",
     "RelayMessage"}

----------------------------------------------------------------------------
(* The wire: JSON text as a sequence of tokens. A value is an opening brace, *)
(* its body (the key/value pairs) and a closing brace; a peer may add        *)
(* whitespace.                                                               *)

LBrace == [tok |-> "{"]
RBrace == [tok |-> "}"]
Newline == [tok |-> "ws"]
Body(v) == [tok |-> "body", val |-> v]

\* serde_json::to_vec / serde_json::to_string
to_vec(m) == <<LBrace, Body(m), RBrace>>

RECURSIVE trim_start(_)
trim_start(bytes) ==
    IF bytes # <<>> /\ Head(bytes) = Newline THEN trim_start(Tail(bytes)) ELSE bytes

RECURSIVE trim_end(_)
trim_end(bytes) ==
    IF bytes # <<>> /\ bytes[Len(bytes)] = Newline
    THEN trim_end(SubSeq(bytes, 1, Len(bytes) - 1))
    ELSE bytes

\* A from_slice that takes any tag for a variant.
from_slice_anytag(bytes) ==
    LET t == trim_end(trim_start(bytes)) IN
    IF /\ Len(t) = 3
       /\ t[1] = LBrace
       /\ t[2].tok = "body"
       /\ t[3] = RBrace
       /\ "type" \in DOMAIN t[2].val
    THEN [ok |-> TRUE, val |-> t[2].val]
    ELSE [ok |-> FALSE]

\* serde_json::from_slice::<DeliveryMessage>: the whole slice must be one value of
\* a known variant with its fields, surrounded by nothing but whitespace.
from_slice(bytes) ==
    LET t == trim_end(trim_start(bytes)) IN
    IF /\ Len(t) = 3
       /\ t[1] = LBrace
       /\ t[2].tok = "body"
       /\ t[3] = RBrace
       /\ "type" \in DOMAIN t[2].val
       /\ t[2].val.type \in VariantTags
       /\ RequiredFields(t[2].val.type) \subseteq DOMAIN t[2].val
    THEN [ok |-> TRUE, val |-> t[2].val]
    ELSE [ok |-> FALSE]

----------------------------------------------------------------------------
(* impl GroupState *)

\* Vec::contains
Contains(seq, x) == \E i \in 1..Len(seq) : seq[i] = x

\* A GroupState::new that records the group's id as its creator.
GroupState_new_anon(id, creator) ==
    [id |-> id, members |-> <<creator>>, creator |-> id, messages |-> <<>>]

\* A GroupState::new that leaves the creator out of the members.
GroupState_new_empty(id, creator) ==
    [id |-> id, members |-> <<>>, creator |-> creator, messages |-> <<>>]

\* GroupState::new
GroupState_new(id, creator) ==
    [id |-> id, members |-> <<creator>>, creator |-> creator, messages |-> <<>>]

\* An add_member without the contains check.
add_member_push(group, client_id) == [group EXCEPT !.members = Append(@, client_id)]

\* An add_member that rebuilds the list from the creator: it loses earlier joins.
add_member_rebuild(group, client_id) ==
    IF ~Contains(group.members, client_id)
    THEN [group EXCEPT !.members = <<group.creator, client_id>>]
    ELSE group

\* An add_member that puts the new member first.
add_member_front(group, client_id) ==
    IF ~Contains(group.members, client_id)
    THEN [group EXCEPT !.members = <<client_id>> \o @]
    ELSE group

\* GroupState::add_member
add_member(group, client_id) ==
    IF ~Contains(group.members, client_id)
    THEN [group EXCEPT !.members = Append(@, client_id)]
    ELSE group

\* An add_message that drops a message the log already holds.
add_message_dedup(group, sender, message, msg_type) ==
    IF Contains(group.messages, <<sender, message, msg_type>>) THEN group
    ELSE [group EXCEPT !.messages = Append(@, <<sender, message, msg_type>>)]

\* GroupState::add_message
add_message(group, sender, message, msg_type) ==
    [group EXCEPT !.messages = Append(@, <<sender, message, msg_type>>)]

----------------------------------------------------------------------------
(* impl DeliveryService: what each operation does to its map once it holds   *)
(* the lock, as the pair of the map afterwards and the value returned.       *)

\* HashMap::insert
Insert(map, k, v) == [x \in DOMAIN map \cup {k} |-> IF x = k THEN v ELSE map[x]]

\* HashMap::get(..).cloned()
Get(map, k) == IF k \in DOMAIN map THEN Some(map[k]) ELSE None

Ok(v) == [ok |-> TRUE, val |-> v]
Err(e) == [ok |-> FALSE, err |-> e]

\* A store_key_package that keeps the bundle an identity already has.
store_key_package_keep(packages, client_id, key_package) ==
    [map |-> IF client_id \in DOMAIN packages THEN packages
             ELSE Insert(packages, client_id, key_package),
     ret |-> Ok(<<>>)]

store_key_package(packages, client_id, key_package) ==
    [map |-> Insert(packages, client_id, key_package), ret |-> Ok(<<>>)]

\* A fetch_key_package that answers an unknown identity with an empty bundle.
fetch_key_package_default(packages, client_id) ==
    IF client_id \in DOMAIN packages THEN Some(packages[client_id]) ELSE Some(<<>>)

fetch_key_package(packages, client_id) == Get(packages, client_id)

\* A create_group without the contains_key check: it replaces the record.
create_group_overwrite(gs, group_id, creator_id) ==
    LET group == GroupState_new(group_id, creator_id) IN
    [map |-> Insert(gs, group_id, group), ret |-> Ok(group)]

create_group(gs, group_id, creator_id) ==
    IF group_id \in DOMAIN gs
    THEN [map |-> gs, ret |-> Err(<<"Group already exists", group_id>>)]
    ELSE LET group == GroupState_new(group_id, creator_id) IN
         [map |-> Insert(gs, group_id, group), ret |-> Ok(group)]

\* A join_group that registers the group when it is missing.
join_group_upsert(gs, group_id, client_id) ==
    LET group == IF group_id \in DOMAIN gs THEN add_member(gs[group_id], client_id)
                 ELSE GroupState_new(group_id, client_id) IN
    [map |-> Insert(gs, group_id, group), ret |-> Ok(group)]

join_group(gs, group_id, client_id) ==
    IF group_id \in DOMAIN gs
    THEN LET group == add_member(gs[group_id], client_id) IN
         [map |-> [gs EXCEPT ![group_id] = group], ret |-> Ok(group)]
    ELSE [map |-> gs, ret |-> Err(<<"Group not found", group_id>>)]

\* A relay_message without the membership check.
relay_message_nocheck(gs, group_id, sender_id, message, message_type) ==
    IF group_id \in DOMAIN gs
    THEN [map |-> [gs EXCEPT ![group_id] =
                         add_message(@, sender_id, message, message_type)],
          ret |-> Ok(<<>>)]
    ELSE [map |-> gs, ret |-> Err(<<"Group not found", group_id>>)]

relay_message(gs, group_id, sender_id, message, message_type) ==
    IF group_id \in DOMAIN gs
    THEN IF ~Contains(gs[group_id].members, sender_id)
         THEN [map |-> gs, ret |-> Err(<<"Sender not in group", sender_id>>)]
         ELSE [map |-> [gs EXCEPT ![group_id] =
                              add_message(@, sender_id, message, message_type)],
               ret |-> Ok(<<>>)]
    ELSE [map |-> gs, ret |-> Err(<<"Group not found", group_id>>)]

get_group(gs, group_id) == Get(gs, group_id)


----------------------------------------------------------------------------
(* tokio::sync::RwLock: any number of readers or one writer, and a FIFO      *)
(* queue of waiters (the lock is fair: whoever finds a waiter queued, or     *)
(* the lock held against him, queues behind).                                *)

LockNames == {"key_packages", "groups"}

\* Which lock a request takes, and how (the .read().await / .write().await of
\* the operation handle_message calls for it).
LockOf(m) ==
    IF m.type \in {"StoreKeyPackage", "FetchKeyPackage", "ListKeyPackages"}
    THEN "key_packages" ELSE "groups"
ModeOf(m) ==
    IF m.type \in {"FetchKeyPackage", "ListKeyPackages"} THEN "read" ELSE "write"

FreeLock == [readers |-> {}, writer |-> None, waitq |-> <<>>]

\* A read lock that does not wait for the writer.
CanRead_any(l) == TRUE
CanRead(l) == l.writer = None
\* A write lock that does not wait for the writer before it.
CanWrite_shared(l) == l.readers = {}
CanWrite(l) == l.writer = None /\ l.readers = {}
CanTake(l, mode) == IF mode = "read" THEN CanRead(l) ELSE CanWrite(l)

Take(l, c, mode) ==
    IF mode = "read" THEN [l EXCEPT !.readers = @ \cup {c}]
    ELSE [l EXCEPT !.writer = Some(c)]

\* A release that wakes nobody.
HandOver_none(l) == l

\* Dropping a guard hands the lock to the waiters at the head of the queue, in
\* order, for as long as the next one can take it.
RECURSIVE HandOver(_)
HandOver(l) ==
    IF l.waitq # <<>> /\ CanTake(l, Head(l.waitq).mode)
    THEN HandOver(Take([l EXCEPT !.waitq = Tail(@)],
                       Head(l.waitq).conn, Head(l.waitq).mode))
    ELSE l

Release(l, c) ==
    HandOver([l EXCEPT !.readers = @ \ {c},
                       !.writer = IF @ = Some(c) THEN None ELSE @])

Holders(l) == l.readers \cup {l.writer[i] : i \in 1..Len(l.writer)}
Waiters(l) == {l.waitq[i].conn : i \in 1..Len(l.waitq)}

----------------------------------------------------------------------------
(* History of the mutations (store_key_package, create_group, join_group,   *)
(* relay_message) in the order in which they were granted their write lock:  *)
(* the request, whether it had to queue, what it found when it got the lock  *)
(* and, once it has run, how it ended.                                       *)

\* What the mutation m finds in the maps kp and gs.
Found(m, kp, gs) ==
    CASE m.type = "StoreKeyPackage" ->
            [existed |-> m.client_id \in DOMAIN kp, member |-> FALSE]
      [] m.type = "CreateGroup" ->
            [existed |-> m.group_id \in DOMAIN gs, member |-> FALSE]
      [] m.type = "JoinGroup" ->
            [existed |-> m.group_id \in DOMAIN gs,
             member |-> m.group_id \in DOMAIN gs /\ Contains(gs[m.group_id].members, m.client_id)]
      [] m.type = "RelayMessage" ->
            [existed |-> m.group_id \in DOMAIN gs,
             member |-> m.group_id \in DOMAIN gs /\ Contains(gs[m.group_id].members, m.sender_id)]

\* The entries of the writers among the connections cs that the queue q held,
\* in the order of q.
RECURSIVE Granted(_, _, _, _, _, _)
Granted(q, cs, reqs, waited, kp, gs) ==
    IF q = <<>> THEN <<>>
    ELSE (IF Head(q).conn \in cs /\ Head(q).mode = "write"
          THEN <<[conn |-> Head(q).conn, req |-> reqs[Head(q).conn][1], status |-> "held",
                  waited |-> waited, found |-> Found(reqs[Head(q).conn][1], kp, gs)]>>
          ELSE <<>>) \o Granted(Tail(q), cs, reqs, waited, kp, gs)

\* The mutation of connection c has run and ended with st.
Settle(hist, c, st) ==
    [i \in 1..Len(hist) |->
        IF hist[i].conn = c /\ hist[i].status = "held"
        THEN [hist[i] EXCEPT !.status = st]
        ELSE hist[i]]

----------------------------------------------------------------------------
(* The state after DeliveryService::new and before any connection.          *)

EmptyMap == [x \in {} |-> None]

Init ==
    /\ key_packages = EmptyMap
    /\ groups = EmptyMap
    /\ lock = [n \in LockNames |-> FreeLock]
    /\ pc = [c \in Streams |-> "Unconnected"]
    /\ inbuf = [c \in Streams |-> <<>>]
    /\ peerClosed = [c \in Streams |-> FALSE]
    /\ msg = [c \in Streams |-> None]
    /\ response = [c \in Streams |-> None]
    /\ outbuf = [c \in Streams |-> <<>>]
    /\ sent = [c \in Streams |-> <<>>]
    /\ dispatched = [c \in Streams |-> <<>>]
    /\ opHist = <<>>

storeVars == <<key_packages, groups>>
histVars == <<sent, dispatched, opHist>>

----------------------------------------------------------------------------
(* main: the accept loop spawns handle_client for each connection.          *)

Accept(c) ==
    /\ pc[c] = "Unconnected"
    /\ pc' = [pc EXCEPT ![c] = "Reading"]
    /\ UNCHANGED <<storeVars, lock, inbuf, peerClosed, msg, response, outbuf, histVars>>

----------------------------------------------------------------------------
(* The peer of a connection.                                                 *)

RECURSIVE SumLen(_, _)
SumLen(f, S) ==
    IF S = {} THEN 0
    ELSE LET x == CHOOSE y \in S : TRUE IN Len(f[x]) + SumLen(f, S \ {x})

\* The peer writes the value v, followed by a newline as the test client does.
Send(c, v) ==
    /\ pc[c] \notin {"Unconnected", "Closed"}
    /\ ~peerClosed[c]
    /\ SumLen(sent, Streams) < MaxReqs
    /\ inbuf' = [inbuf EXCEPT ![c] = @ \o to_vec(v) \o <<Newline>>]
    /\ sent' = [sent EXCEPT ![c] = Append(@, v)]
    /\ UNCHANGED <<storeVars, lock, pc, peerClosed, msg, response, outbuf,
                   dispatched, opHist>>

\* The peer closes its side: the server reads 0 bytes once it has read the rest.
PeerClose(c) ==
    /\ pc[c] \notin {"Unconnected", "Closed"}
    /\ ~peerClosed[c]
    /\ peerClosed' = [peerClosed EXCEPT ![c] = TRUE]
    /\ UNCHANGED <<storeVars, lock, pc, inbuf, msg, response, outbuf, histVars>>

----------------------------------------------------------------------------
(* handle_client                                                             *)

Min(a, b) == IF a < b THEN a ELSE b

\* A server that keeps its state per session: what was written is dropped when
\* a connection's peer has closed.
ReadEof_purge(c) ==
    /\ pc[c] = "Reading"
    /\ inbuf[c] = <<>>
    /\ peerClosed[c]
    /\ pc' = [pc EXCEPT ![c] = "Closed"]
    /\ key_packages' = EmptyMap
    /\ groups' = EmptyMap
    /\ UNCHANGED <<lock, inbuf, peerClosed, msg, response, outbuf, histVars>>

\* A handler without the Ok(0) arm: the empty read goes to the decoder, fails
\* there and is answered like any malformed request.
ReadEof_decode(c) ==
    /\ pc[c] = "Reading"
    /\ inbuf[c] = <<>>
    /\ peerClosed[c]
    /\ response' = [response EXCEPT ![c] = Some(Error(<<"Invalid message format">>))]
    /\ pc' = [pc EXCEPT ![c] = "Writing"]
    /\ UNCHANGED <<storeVars, lock, inbuf, peerClosed, msg, outbuf, histVars>>

\* stream.read returns Ok(0): the peer has closed.
ReadEof(c) ==
    /\ pc[c] = "Reading"
    /\ inbuf[c] = <<>>
    /\ peerClosed[c]
    /\ pc' = [pc EXCEPT ![c] = "Closed"]
    /\ UNCHANGED <<storeVars, lock, inbuf, peerClosed, msg, response, outbuf, histVars>>

\* stream.read returns Err.
ReadError(c) ==
    /\ pc[c] = "Reading"
    /\ pc' = [pc EXCEPT ![c] = "Closed"]
    /\ UNCHANGED <<storeVars, lock, inbuf, peerClosed, msg, response, outbuf, histVars>>

\* stream.write_all succeeds: back to the top of the loop.
Write(c) ==
    /\ pc[c] = "Writing"
    /\ outbuf' = [outbuf EXCEPT ![c] = @ \o to_vec(response[c][1])]
    /\ response' = [response EXCEPT ![c] = None]
    /\ pc' = [pc EXCEPT ![c] = "Reading"]
    /\ UNCHANGED <<storeVars, lock, inbuf, peerClosed, msg, histVars>>

\* A write error that ends the whole server, not the one connection.
WriteError_exit(c) ==
    /\ pc[c] = "Writing"
    /\ response' = [response EXCEPT ![c] = None]
    /\ pc' = [x \in Streams |-> IF pc[x] = "Unconnected" THEN pc[x] ELSE "Closed"]
    /\ UNCHANGED <<storeVars, lock, inbuf, peerClosed, msg, outbuf, histVars>>

\* stream.write_all returns Err: break.
WriteError(c) ==
    /\ pc[c] = "Writing"
    /\ response' = [response EXCEPT ![c] = None]
    /\ pc' = [pc EXCEPT ![c] = "Closed"]
    /\ UNCHANGED <<storeVars, lock, inbuf, peerClosed, msg, outbuf, histVars>>


----------------------------------------------------------------------------
(* handle_message: one arm per request, each calling one operation of the   *)
(* service. The operation first takes its lock (AcquireLock, in the step     *)
(* that read the request), then runs holding it and drops the guard on       *)
(* return.                                                                   *)

\* A lock that lets whoever can take it pass the queue (a read-preferring lock).
AcquireLock_barging(c, m) ==
    LET n == LockOf(m)
        mode == ModeOf(m)
        l == lock[n] IN
    /\ msg' = [msg EXCEPT ![c] = Some(m)]
    /\ IF CanTake(l, mode)
       THEN /\ lock' = [lock EXCEPT ![n] = Take(l, c, mode)]
            /\ pc' = [pc EXCEPT ![c] = "Holding"]
            /\ opHist' = opHist \o Granted(<<[conn |-> c, mode |-> mode]>>, {c},
                                           [msg EXCEPT ![c] = Some(m)], FALSE,
                                           key_packages, groups)
       ELSE /\ lock' = [lock EXCEPT ![n].waitq = Append(@, [conn |-> c, mode |-> mode])]
            /\ pc' = [pc EXCEPT ![c] = "Waiting"]
            /\ UNCHANGED opHist
    /\ UNCHANGED response

\* self.key_packages.read()/.write().await, self.groups.write().await: the
\* operation called for the request m takes its lock at once if it is free and
\* nobody waits, and queues otherwise.
AcquireLock(c, m) ==
    LET n == LockOf(m)
        mode == ModeOf(m)
        l == lock[n] IN
    /\ msg' = [msg EXCEPT ![c] = Some(m)]
    /\ IF l.waitq = <<>> /\ CanTake(l, mode)
       THEN /\ lock' = [lock EXCEPT ![n] = Take(l, c, mode)]
            /\ pc' = [pc EXCEPT ![c] = "Holding"]
            /\ opHist' = opHist \o Granted(<<[conn |-> c, mode |-> mode]>>, {c},
                                           [msg EXCEPT ![c] = Some(m)], FALSE,
                                           key_packages, groups)
       ELSE /\ lock' = [lock EXCEPT ![n].waitq = Append(@, [conn |-> c, mode |-> mode])]
            /\ pc' = [pc EXCEPT ![c] = "Waiting"]
            /\ UNCHANGED opHist
    /\ UNCHANGED response

\* An arm `_` that acknowledges what it was sent.
HandleOther_ack(c) ==
    /\ response' = [response EXCEPT ![c] = Some(MessageResponse(TRUE, <<"ok">>))]
    /\ pc' = [pc EXCEPT ![c] = "Writing"]
    /\ UNCHANGED <<msg, lock, opHist>>

\* The arm `_`: a response variant received as a request.
HandleOther(c) ==
    /\ response' = [response EXCEPT ![c] = Some(Error(<<"Invalid message type for server">>))]
    /\ pc' = [pc EXCEPT ![c] = "Writing"]
    /\ UNCHANGED <<msg, lock, opHist>>

\* handle_message up to its first suspension: a request goes for its lock, any
\* other variant is answered at once.
handle_message(c, m) ==
    IF m.type \in RequestTags THEN AcquireLock(c, m) ELSE HandleOther(c)

\* A handler that reads the next request while the response to the last one is
\* still to be written.
Read_pipelined(c, n) ==
    /\ pc[c] \in {"Reading", "Writing"}
    /\ n \in 1..Min(Len(inbuf[c]), BufferSize)
    /\ LET request_data == SubSeq(inbuf[c], 1, n)
           r == from_slice(request_data) IN
       /\ inbuf' = [inbuf EXCEPT ![c] = SubSeq(@, n + 1, Len(@))]
       /\ IF r.ok
          THEN /\ dispatched' = [dispatched EXCEPT ![c] = Append(@, r.val)]
               /\ handle_message(c, r.val)
          ELSE /\ response' = [response EXCEPT ![c] = Some(Error(<<"Invalid message format">>))]
               /\ pc' = [pc EXCEPT ![c] = "Writing"]
               /\ UNCHANGED <<msg, dispatched, lock, opHist>>
    /\ UNCHANGED <<storeVars, peerClosed, outbuf, sent>>

\* stream.read returns Ok(n), n > 0: the n bytes are decoded as one message and
\* either handed to handle_message or answered with an Error.
Read(c, n) ==
    /\ pc[c] = "Reading"
    /\ n \in 1..Min(Len(inbuf[c]), BufferSize)
    /\ LET request_data == SubSeq(inbuf[c], 1, n)
           r == from_slice(request_data) IN
       /\ inbuf' = [inbuf EXCEPT ![c] = SubSeq(@, n + 1, Len(@))]
       /\ IF r.ok
          THEN /\ dispatched' = [dispatched EXCEPT ![c] = Append(@, r.val)]
               /\ handle_message(c, r.val)
          ELSE /\ response' = [response EXCEPT ![c] = Some(Error(<<"Invalid message format">>))]
               /\ pc' = [pc EXCEPT ![c] = "Writing"]
               /\ UNCHANGED <<msg, dispatched, lock, opHist>>
    /\ UNCHANGED <<storeVars, peerClosed, outbuf, sent>>

\* The operation of connection c returns: its guard on lock n is dropped, the
\* waiters the lock passes to go on, and handle_message builds the response.
Return(c, n, resp, hist) ==
    LET after == Release(lock[n], c)
        woken == Holders(after) \ Holders(lock[n]) IN
    /\ lock' = [lock EXCEPT ![n] = after]
    /\ pc' = [x \in Streams |->
                IF x = c THEN "Writing" ELSE IF x \in woken THEN "Holding" ELSE pc[x]]
    /\ opHist' = hist \o Granted(lock[n].waitq, woken, msg, TRUE, key_packages', groups')
    /\ response' = [response EXCEPT ![c] = Some(resp)]
    /\ msg' = [msg EXCEPT ![c] = None]

Running(c, tag) == pc[c] = "Holding" /\ msg[c][1].type = tag

Outcome(ret) == IF ret.ok THEN "ok" ELSE "err"

HandleStoreKeyPackage(c) ==
    /\ Running(c, "StoreKeyPackage")
    /\ LET m == msg[c][1]
           r == store_key_package(key_packages, m.client_id, m.key_package) IN
       /\ key_packages' = r.map
       /\ UNCHANGED groups
       /\ Return(c, "key_packages",
                 IF r.ret.ok
                 THEN MessageResponse(TRUE, <<"KeyPackage stored for", m.client_id>>)
                 ELSE Error(<<"Failed to store KeyPackage">> \o r.ret.err),
                 Settle(opHist, c, Outcome(r.ret)))
    /\ UNCHANGED <<inbuf, peerClosed, outbuf, sent, dispatched>>

HandleFetchKeyPackage(c) ==
    /\ Running(c, "FetchKeyPackage")
    /\ UNCHANGED storeVars
    /\ LET m == msg[c][1]
           r == fetch_key_package(key_packages, m.client_id) IN
       Return(c, "key_packages",
              IF r # None THEN KeyPackageResponse(m.client_id, Some(r[1]))
              ELSE KeyPackageResponse(m.client_id, None),
              opHist)
    /\ UNCHANGED <<inbuf, peerClosed, outbuf, sent, dispatched>>

\* The orders in which a HashMap may yield its keys.
Orders(S) ==
    {s \in [1..Cardinality(S) -> S] : \A i, j \in 1..Cardinality(S) : s[i] = s[j] => i = j}

list_key_packages(packages) == Orders(DOMAIN packages)

HandleListKeyPackages(c) ==
    /\ Running(c, "ListKeyPackages")
    /\ UNCHANGED storeVars
    /\ \E clients \in list_key_packages(key_packages) :
          Return(c, "key_packages", KeyPackageListResponse(clients), opHist)
    /\ UNCHANGED <<inbuf, peerClosed, outbuf, sent, dispatched>>

HandleCreateGroup(c) ==
    /\ Running(c, "CreateGroup")
    /\ LET m == msg[c][1]
           r == create_group(groups, m.group_id, m.creator_id) IN
       /\ groups' = r.map
       /\ UNCHANGED key_packages
       /\ Return(c, "groups",
                 IF r.ret.ok THEN GroupResponse(m.group_id, r.ret.val.members)
                 ELSE Error(<<"Failed to create group">> \o r.ret.err),
                 Settle(opHist, c, Outcome(r.ret)))
    /\ UNCHANGED <<inbuf, peerClosed, outbuf, sent, dispatched>>

\* A join arm that admits only clients with a bundle in the directory.
HandleJoinGroup_bundle(c) ==
    /\ Running(c, "JoinGroup")
    /\ LET m == msg[c][1]
           r == IF m.client_id \in DOMAIN key_packages
                THEN join_group(groups, m.group_id, m.client_id)
                ELSE [map |-> groups, ret |-> Err(<<"No KeyPackage for", m.client_id>>)] IN
       /\ groups' = r.map
       /\ UNCHANGED key_packages
       /\ Return(c, "groups",
                 IF r.ret.ok THEN GroupResponse(m.group_id, r.ret.val.members)
                 ELSE Error(<<"Failed to join group">> \o r.ret.err),
                 Settle(opHist, c, Outcome(r.ret)))
    /\ UNCHANGED <<inbuf, peerClosed, outbuf, sent, dispatched>>

HandleJoinGroup(c) ==
    /\ Running(c, "JoinGroup")
    /\ LET m == msg[c][1]
           r == join_group(groups, m.group_id, m.client_id) IN
       /\ groups' = r.map
       /\ UNCHANGED key_packages
       /\ Return(c, "groups",
                 IF r.ret.ok THEN GroupResponse(m.group_id, r.ret.val.members)
                 ELSE Error(<<"Failed to join group">> \o r.ret.err),
                 Settle(opHist, c, Outcome(r.ret)))
    /\ UNCHANGED <<inbuf, peerClosed, outbuf, sent, dispatched>>

\* A relay arm that lets the error of relay_message end the connection, as a `?`
\* in handle_client would.
HandleRelayMessage_fatal(c) ==
    /\ Running(c, "RelayMessage")
    /\ LET m == msg[c][1]
           r == relay_message(groups, m.group_id, m.sender_id, m.message, m.message_type)
           after == Release(lock["groups"], c)
           woken == Holders(after) \ Holders(lock["groups"]) IN
       /\ groups' = r.map
       /\ UNCHANGED key_packages
       /\ IF r.ret.ok
          THEN Return(c, "groups", MessageResponse(TRUE, <<"Message relayed successfully">>),
                      Settle(opHist, c, "ok"))
          ELSE /\ lock' = [lock EXCEPT !["groups"] = after]
               /\ pc' = [x \in Streams |->
                           IF x = c THEN "Closed" ELSE IF x \in woken THEN "Holding" ELSE pc[x]]
               /\ opHist' = Settle(opHist, c, "err")
                               \o Granted(lock["groups"].waitq, woken, msg, TRUE,
                                          key_packages', groups')
               /\ msg' = [msg EXCEPT ![c] = None]
               /\ UNCHANGED response
    /\ UNCHANGED <<inbuf, peerClosed, outbuf, sent, dispatched>>

HandleRelayMessage(c) ==
    /\ Running(c, "RelayMessage")
    /\ LET m == msg[c][1]
           r == relay_message(groups, m.group_id, m.sender_id, m.message, m.message_type) IN
       /\ groups' = r.map
       /\ UNCHANGED key_packages
       /\ Return(c, "groups",
                 IF r.ret.ok THEN MessageResponse(TRUE, <<"Message relayed successfully">>)
                 ELSE Error(<<"Failed to relay message">> \o r.ret.err),
                 Settle(opHist, c, Outcome(r.ret)))
    /\ UNCHANGED <<inbuf, peerClosed, outbuf, sent, dispatched>>

\* handle_client around handle_message, as long as the connection lasts.
Connection(c) ==
    \/ Accept(c)
    \/ Write(c)

\* The ways a connection ends: the peer closes, or a read or a write fails.
Closing(c) ==
    \/ PeerClose(c)
    \/ ReadEof(c)
    \/ ReadError(c)
    \/ WriteError(c)

\* The arms of handle_message on the key-package directory.
Directory(c) ==
    \/ HandleStoreKeyPackage(c)
    \/ HandleFetchKeyPackage(c)
    \/ HandleListKeyPackages(c)

\* The arms of handle_message on the group registry.
Registry(c) ==
    \/ HandleCreateGroup(c)
    \/ HandleJoinGroup(c)
    \/ HandleRelayMessage(c)

----------------------------------------------------------------------------
(* Peers and specifications.                                                 *)

DirectoryRequests ==
    {StoreKeyPackageMsg(i, b) : i \in ClientIds, b \in Bundles}
      \cup {FetchKeyPackageMsg(i) : i \in ClientIds}
      \cup {ListKeyPackagesMsg}

RegistryRequests ==
    {CreateGroupMsg(g, i) : g \in GroupIds, i \in ClientIds}
      \cup {JoinGroupMsg(g, i) : g \in GroupIds, i \in ClientIds}
      \cup {RelayMessageMsg(g, i, p, k) :
               g \in GroupIds, i \in ClientIds, p \in Payloads, k \in Kinds}

\* The peer has no request under way: all it sent has been answered.
Quiet(c) == pc[c] = "Reading" /\ inbuf[c] = <<>>

\* A peer like the test client: it sends a request and reads the response before
\* it sends the next one, and each request reaches the server in one read.
SendRegistryRequest(c) == \E m \in RegistryRequests : Quiet(c) /\ Send(c, m)
SendDirectoryRequest(c) == \E m \in DirectoryRequests : Quiet(c) /\ Send(c, m)
ReadAll(c) == Read(c, Len(inbuf[c]))

\* Requests on the group registry, from peers that wait for each response.
Next ==
    \E c \in Conns : Connection(c) \/ Registry(c) \/ SendRegistryRequest(c) \/ ReadAll(c)

Spec == Init /\ [][Next]_vars

\* Requests on the key-package directory, from peers that wait for each response.
NextDirectory ==
    \E c \in Conns : Connection(c) \/ Directory(c) \/ SendDirectoryRequest(c) \/ ReadAll(c)

SpecDirectory == Init /\ [][NextDirectory]_vars

\* Creations and joins alone, by one client more.
JoinRequests ==
    {CreateGroupMsg(g, i) : g \in GroupIds, i \in JoinClientIds}
      \cup {JoinGroupMsg(g, i) : g \in GroupIds, i \in JoinClientIds}

SendJoinRequest(c) == \E m \in JoinRequests : Quiet(c) /\ Send(c, m)

NextJoins ==
    \E c \in Conns :
        \/ Connection(c) \/ HandleCreateGroup(c) \/ HandleJoinGroup(c)
        \/ SendJoinRequest(c) \/ ReadAll(c)

SpecJoins == Init /\ [][NextJoins]_vars

\* What a peer may put on the wire: requests, a response variant, and a value of
\* no variant at all (the test client's "InvalidMessageType").
WireValues ==
    {StoreKeyPackageMsg("alice", <<1>>), FetchKeyPackageMsg("alice"),
     Error(<<"x">>), [type |-> "InvalidMessageType"]}

\* A peer that writes whenever it likes, over a network that delivers the bytes
\* in reads of any length.
SendRaw(c) == \E v \in WireValues : Send(c, v)
ReadSome(c) == \E n \in 1..Len(inbuf[c]) : Read(c, n)

\* Segmentation concerns one connection at a time.
WireConns == {"A"}

NextWire ==
    \E c \in WireConns :
        \/ Connection(c) \/ HandleStoreKeyPackage(c) \/ HandleFetchKeyPackage(c)
        \/ SendRaw(c) \/ ReadSome(c) \/ Closing(c)

SpecWire == Init /\ [][NextWire]_vars

\* Peers that write ahead: they send the next value without waiting for the
\* response to the last, on both connections, and the network delivers the
\* bytes in reads of any length.
PipeValues ==
    {StoreKeyPackageMsg("alice", <<1>>), FetchKeyPackageMsg("alice")}

SendAhead(c) == \E v \in PipeValues : Send(c, v)

NextPipe ==
    \E c \in Conns :
        \/ Connection(c) \/ HandleStoreKeyPackage(c) \/ HandleFetchKeyPackage(c)
        \/ SendAhead(c) \/ ReadSome(c)

SpecPipe == Init /\ [][NextPipe]_vars

\* Connections that end: peers that wait for each response, on the directory
\* and on the registry, and that may close at any time, with reads and writes
\* that may fail.
SharedRequests ==
    {StoreKeyPackageMsg("alice", <<1>>), FetchKeyPackageMsg("alice"),
     CreateGroupMsg("g1", "alice"), RelayMessageMsg("g1", "alice", <<1, 2, 3>>, "Application")}

SendSharedRequest(c) == \E m \in SharedRequests : Quiet(c) /\ Send(c, m)

NextFail ==
    \E c \in Conns :
        \/ Connection(c) \/ Closing(c)
        \/ HandleStoreKeyPackage(c) \/ HandleFetchKeyPackage(c)
        \/ HandleCreateGroup(c) \/ HandleRelayMessage(c)
        \/ SendSharedRequest(c) \/ ReadAll(c)

SpecFail == Init /\ [][NextFail]_vars

\* Peers that send the server its own responses: one value of each response
\* variant, and a store so that the directory has something to lose.
ResponseValues ==
    {KeyPackageResponse("alice", None), KeyPackageListResponse(<<"alice">>),
     GroupResponse("g1", <<"alice">>), MessageResponse(TRUE, <<"ok">>), Error(<<"x">>)}

SendResponse(c) ==
    \E v \in ResponseValues \cup {StoreKeyPackageMsg("alice", <<1>>)} : Quiet(c) /\ Send(c, v)

NextOther ==
    \E c \in Conns :
        Connection(c) \/ HandleStoreKeyPackage(c) \/ SendResponse(c) \/ ReadAll(c)

SpecOther == Init /\ [][NextOther]_vars

\* Peers that work on the directory and on the registry at the same time.
MixedRequests ==
    {StoreKeyPackageMsg("alice", <<1>>), FetchKeyPackageMsg("alice"), ListKeyPackagesMsg,
     CreateGroupMsg("g1", "alice")}

SendMixedRequest(c) == \E m \in MixedRequests : Quiet(c) /\ Send(c, m)

NextMixed ==
    \E c \in Conns :
        \/ Connection(c)
        \/ Directory(c) \/ HandleCreateGroup(c)
        \/ SendMixedRequest(c) \/ ReadAll(c)

SpecMixed == Init /\ [][NextMixed]_vars

\* The tokio runtime polls every task that can run: an operation that holds its
\* lock goes on to its return.
Returns(c) == Directory(c) \/ HandleCreateGroup(c)

FairMixed == SpecMixed /\ \A c \in Conns : WF_vars(Returns(c))

\* A third connection, so that a read can arrive while a mutation waits behind
\* a read: stores and fetches of one identity on three connections.
QueueRequests == {StoreKeyPackageMsg("alice", <<1>>), FetchKeyPackageMsg("alice")}

SendQueueRequest(c) == \E m \in QueueRequests : Quiet(c) /\ Send(c, m)

NextQueue ==
    \E c \in Streams :
        \/ Connection(c) \/ HandleStoreKeyPackage(c) \/ HandleFetchKeyPackage(c)
        \/ SendQueueRequest(c) \/ ReadAll(c)

SpecQueue == Init /\ [][NextQueue]_vars

\* As in FairMixed: an operation that holds its lock goes on to its return.
FairQueue == SpecQueue /\ \A c \in Streams : WF_vars(Returns(c))

\* Peers that use the directory and the registry side by side, with a second
\* group: alice stores a bundle or not, bob never does.
FrameRequests ==
    {StoreKeyPackageMsg("alice", <<1>>), FetchKeyPackageMsg("alice"), ListKeyPackagesMsg,
     CreateGroupMsg("g1", "alice"), CreateGroupMsg("g2", "alice"), JoinGroupMsg("g1", "bob"),
     RelayMessageMsg("g1", "alice", <<1, 2, 3>>, "Application")}

SendFrameRequest(c) == \E m \in FrameRequests : Quiet(c) /\ Send(c, m)

NextFrame ==
    \E c \in Conns :
        Connection(c) \/ Directory(c) \/ Registry(c) \/ SendFrameRequest(c) \/ ReadAll(c)

SpecFrame == Init /\ [][NextFrame]_vars

----------------------------------------------------------------------------
(* Properties                                                                *)

Range(seq) == {seq[i] : i \in 1..Len(seq)}
Settled(e) == e.status # "held"
Registered(g) == g \in DOMAIN groups
LogEntry(e) == <<e.req.sender_id, e.req.message, e.req.message_type>>

\* The successful relays into group g, in the order they got the write lock.
RelayedInto(g) ==
    LET Is(e) == e.req.type = "RelayMessage" /\ e.req.group_id = g /\ e.status = "ok"
        ok == SelectSeq(opHist, Is) IN
    [i \in 1..Len(ok) |-> LogEntry(ok[i])]

\* C1: a relay into an existing group succeeds if and only if its sender was a
\* member when the call got the registry's write lock, and the message log of
\* every group is exactly the successful relays into it, in the order in which
\* they got the write lock.
C1_RelayOrder ==
    /\ \A i \in 1..Len(opHist) :
          (opHist[i].req.type = "RelayMessage" /\ Settled(opHist[i])
              /\ opHist[i].found.existed)
          => (opHist[i].status = "ok" <=> opHist[i].found.member)
    /\ \A g \in GroupIds :
          (IF Registered(g) THEN groups[g].messages ELSE <<>>) = RelayedInto(g)

\* Two relays from different connections, the second queued behind the first,
\* have both been appended to the log.
C1_Witness ==
    /\ Registered("g1")
    /\ Len(groups["g1"].messages) = 2
    /\ groups["g1"].messages[1] # groups["g1"].messages[2]
    /\ \E i, j \in 1..Len(opHist) :
          /\ i < j
          /\ opHist[i].req.type = "RelayMessage" /\ opHist[j].req.type = "RelayMessage"
          /\ opHist[i].conn # opHist[j].conn
          /\ opHist[j].waited
          /\ opHist[i].status = "ok" /\ opHist[j].status = "ok"

\* The joins of group g that ended well.
Joined(g) ==
    {opHist[i].req.client_id : i \in
        {k \in 1..Len(opHist) : /\ opHist[k].req.type = "JoinGroup"
                                /\ opHist[k].req.group_id = g
                                /\ opHist[k].status = "ok"}}

\* C2: every join of an existing group succeeds, and the members of a group are
\* exactly its creator and the clients whose joins have returned: concurrent
\* joins lose no update.
C2_ConcurrentJoins ==
    /\ \A i \in 1..Len(opHist) :
          (opHist[i].req.type = "JoinGroup" /\ Settled(opHist[i])
              /\ opHist[i].found.existed)
          => opHist[i].status = "ok"
    /\ \A g \in GroupIds :
          Registered(g) => Range(groups[g].members) = {groups[g].creator} \cup Joined(g)

\* Two joins of distinct clients from different connections, one queued behind
\* the other, have both returned.
C2_Witness ==
    /\ Registered("g1")
    /\ Len(groups["g1"].members) = 3
    /\ \E i, j \in 1..Len(opHist) :
          /\ i < j
          /\ opHist[i].req.type = "JoinGroup" /\ opHist[j].req.type = "JoinGroup"
          /\ opHist[i].req.client_id # opHist[j].req.client_id
          /\ opHist[i].conn # opHist[j].conn
          /\ opHist[j].waited
          /\ opHist[i].status = "ok" /\ opHist[j].status = "ok"

IsRequest(v) == v.type \in RequestTags

\* C3: once a connection has read all its peer sent and answered it, the
\* requests handed to handle_message are the requests the peer sent, each once
\* and in order, however the bytes were cut into reads.
C3_Framing ==
    \A c \in Conns :
        Quiet(c) => SelectSeq(dispatched[c], IsRequest) = SelectSeq(sent[c], IsRequest)

\* The bytes are one value of a known variant, with whitespace around it at most.
Decodable(data) ==
    \E v \in WireValues :
        v.type \in VariantTags /\ trim_end(trim_start(data)) = to_vec(v)

\* The bytes a read step of connection c took.
Taken(c) == SubSeq(inbuf[c], 1, Len(inbuf[c]) - Len(inbuf'[c]))
Reads(c) == pc[c] = "Reading" /\ Len(inbuf'[c]) < Len(inbuf[c])

\* C4: a read whose bytes decode to no variant is answered with an Error
\* without a call of handle_message and without a change of the directory, the
\* registry or their locks; writing the response brings the connection back to
\* Reading, where a read whose bytes decode is handed to handle_message.
C4_MalformedInput ==
    [][\A c \in Conns :
        /\ (Reads(c) /\ ~Decodable(Taken(c)))
           => /\ response'[c] = Some(Error(<<"Invalid message format">>))
              /\ pc'[c] = "Writing"
              /\ dispatched' = dispatched
              /\ UNCHANGED <<key_packages, groups, lock>>
        /\ (pc[c] = "Writing" /\ outbuf'[c] # outbuf[c])
           => /\ pc'[c] = "Reading"
              /\ outbuf'[c] = outbuf[c] \o to_vec(response[c][1])
        /\ (Reads(c) /\ Decodable(Taken(c)))
           => /\ Len(dispatched'[c]) = Len(dispatched[c]) + 1
              /\ trim_end(trim_start(Taken(c))) = to_vec(dispatched'[c][Len(dispatched'[c])])
      ]_vars

\* A connection has answered a value of no variant with an Error and then a
\* FetchKeyPackage with its KeyPackageResponse.
C4_Witness ==
    \E c \in Conns :
        /\ sent[c] = <<[type |-> "InvalidMessageType"], FetchKeyPackageMsg("alice")>>
        /\ dispatched[c] = <<FetchKeyPackageMsg("alice")>>
        /\ outbuf[c] = to_vec(Error(<<"Invalid message format">>))
                          \o to_vec(KeyPackageResponse("alice", None))

\* C5: create_group on a registered group fails with "Group already exists"
\* and leaves the registry, and so the group's record, as it was.
C5_CreateExisting ==
    [][\A c \in Conns :
        (Running(c, "CreateGroup") /\ pc'[c] = "Writing"
            /\ Registered(msg[c][1].group_id))
        => /\ groups' = groups
           /\ response'[c] = Some(Error(<<"Failed to create group", "Group already exists",
                                         msg[c][1].group_id>>))
      ]_vars

\* A second create_group, by another creator, has failed on a group that has
\* been joined since it was created.
C5_Witness ==
    \E c \in Conns :
        /\ pc[c] = "Writing"
        /\ response[c] = Some(Error(<<"Failed to create group", "Group already exists", "g1">>))
        /\ dispatched[c][Len(dispatched[c])].creator_id # groups["g1"].creator
        /\ Len(groups["g1"].members) = 2

\* The bundle of the last store for identity id that has returned.
LastStored(id) ==
    LET Is(e) == e.req.type = "StoreKeyPackage" /\ e.req.client_id = id /\ Settled(e)
        st == SelectSeq(opHist, Is) IN
    IF st = <<>> THEN None ELSE Some(st[Len(st)].req.key_package)

\* C6: fetch_key_package answers with the bundle of the last store for that
\* identity that returned before it, whatever was stored before that and
\* whatever is stored for other identities.
C6_FetchLatest ==
    [][\A c \in Conns :
        (Running(c, "FetchKeyPackage") /\ pc'[c] = "Writing")
        => response'[c] =
              Some(KeyPackageResponse(msg[c][1].client_id, LastStored(msg[c][1].client_id)))
      ]_vars

\* A fetch has returned the second of two bundles stored for one identity.
C6_Witness ==
    \E c \in Conns :
        /\ pc[c] = "Writing"
        /\ response[c] = Some(KeyPackageResponse("alice", Some(<<2>>)))
        /\ \E i, j \in 1..Len(opHist) :
              /\ i < j
              /\ opHist[i].req = StoreKeyPackageMsg("alice", <<1>>)
              /\ opHist[j].req = StoreKeyPackageMsg("alice", <<2>>)

NeverStored(id) ==
    \A i \in 1..Len(opHist) :
        ~(opHist[i].req.type = "StoreKeyPackage" /\ opHist[i].req.client_id = id)

\* C7: a FetchKeyPackage for an identity no store was ever made for is answered
\* with a KeyPackageResponse for that identity with key_package None, not with
\* an Error, and the directory is unchanged.
C7_FetchAbsent ==
    [][\A c \in Conns :
        (Running(c, "FetchKeyPackage") /\ pc'[c] = "Writing"
            /\ NeverStored(msg[c][1].client_id))
        => /\ response'[c][1].type = "KeyPackageResponse"
           /\ response'[c][1].client_id = msg[c][1].client_id
           /\ response'[c][1].key_package = None
           /\ key_packages' = key_packages
      ]_vars

\* A fetch for an identity never stored has been answered while another
\* identity has a bundle.
C7_Witness ==
    \E c \in Conns :
        /\ pc[c] = "Writing"
        /\ response[c] = Some(KeyPackageResponse("alice", None))
        /\ dispatched[c][Len(dispatched[c])] = FetchKeyPackageMsg("alice")
        /\ "bob" \in DOMAIN key_packages

NoDuplicateMembers ==
    \A g \in DOMAIN groups :
        \A i, j \in 1..Len(groups[g].members) :
            groups[g].members[i] = groups[g].members[j] => i = j

\* C8: no client occurs twice in the members of a group, and join_group by a
\* client that is a member already succeeds, returns the record and leaves the
\* registry as it was.
C8_JoinIdempotent ==
    /\ []NoDuplicateMembers
    /\ [][\A c \in Conns :
            (Running(c, "JoinGroup") /\ pc'[c] = "Writing"
                /\ Registered(msg[c][1].group_id)
                /\ Contains(groups[msg[c][1].group_id].members, msg[c][1].client_id))
            => /\ groups' = groups
               /\ response'[c] = Some(GroupResponse(msg[c][1].group_id,
                                                    groups[msg[c][1].group_id].members))
         ]_vars

\* A client that had joined a group has joined it again.
C8_Witness ==
    \E i, j \in 1..Len(opHist) :
        /\ i < j
        /\ opHist[i].req.type = "JoinGroup" /\ opHist[i].status = "ok"
        /\ ~opHist[i].found.member
        /\ opHist[j].req = opHist[i].req /\ opHist[j].status = "ok"
        /\ pc[opHist[j].conn] = "Writing"
        /\ response[opHist[j].conn][1].type = "GroupResponse"

\* C9: a relay_message into an unregistered group fails with "Group not found",
\* one by a sender that is not a member fails with "Sender not in group", and
\* both leave the registry as it was.
C9_FailedRelay ==
    [][\A c \in Conns :
        (Running(c, "RelayMessage") /\ pc'[c] = "Writing")
        => LET m == msg[c][1] IN
           /\ ~Registered(m.group_id)
              => /\ groups' = groups
                 /\ response'[c] = Some(Error(<<"Failed to relay message", "Group not found",
                                               m.group_id>>))
           /\ (Registered(m.group_id) /\ ~Contains(groups[m.group_id].members, m.sender_id))
              => /\ groups' = groups
                 /\ response'[c] = Some(Error(<<"Failed to relay message",
                                               "Sender not in group", m.sender_id>>))
      ]_vars

\* A relay into a group not yet registered has failed, and after the group was
\* created a relay by a non-member has failed.
C9_Witness ==
    \E c, d \in Conns :
        /\ outbuf[c] = to_vec(Error(<<"Failed to relay message", "Group not found", "g1">>))
        /\ pc[d] = "Writing"
        /\ response[d] = Some(Error(<<"Failed to relay message", "Sender not in group", "bob">>))
        /\ Registered("g1")
        /\ groups["g1"].messages = <<>>

\* C10: join_group on an unregistered group fails with "Group not found" and
\* leaves the registry as it was, so that create_group on it then succeeds
\* with the creator as the only member.
C10_JoinUnregistered ==
    [][\A c \in Conns :
        /\ (Running(c, "JoinGroup") /\ pc'[c] = "Writing"
               /\ ~Registered(msg[c][1].group_id))
           => /\ groups' = groups
              /\ response'[c] = Some(Error(<<"Failed to join group", "Group not found",
                                            msg[c][1].group_id>>))
        /\ (Running(c, "CreateGroup") /\ pc'[c] = "Writing"
               /\ ~Registered(msg[c][1].group_id))
           => /\ msg[c][1].group_id \in DOMAIN groups'
              /\ groups'[msg[c][1].group_id].members = <<msg[c][1].creator_id>>
              /\ response'[c] = Some(GroupResponse(msg[c][1].group_id,
                                                   <<msg[c][1].creator_id>>))
      ]_vars

\* A join of an unregistered group has failed and a create_group of that group
\* by another client has then succeeded.
C10_Witness ==
    /\ Len(opHist) >= 2
    /\ opHist[1].req = JoinGroupMsg("g1", "bob") /\ opHist[1].status = "err"
    /\ opHist[2].req = CreateGroupMsg("g1", "alice") /\ opHist[2].status = "ok"
    /\ Registered("g1")
    /\ groups["g1"].members = <<"alice">>

\* C11: create_group(g, creator) on an unregistered g succeeds and registers,
\* next to the records there were, a record of id g whose members are exactly
\* the creator, whose creator is the creator and whose message log is empty;
\* the GroupResponse carries g and that member list.
C11_CreateFresh ==
    [][\A c \in Conns :
        (Running(c, "CreateGroup") /\ pc'[c] = "Writing"
            /\ ~Registered(msg[c][1].group_id))
        => LET g == msg[c][1].group_id
               creator == msg[c][1].creator_id IN
           /\ DOMAIN groups' = DOMAIN groups \cup {g}
           /\ \A h \in DOMAIN groups : groups'[h] = groups[h]
           /\ groups'[g] = [id |-> g, members |-> <<creator>>, creator |-> creator,
                            messages |-> <<>>]
           /\ response'[c] = Some(GroupResponse(g, groups'[g].members))
           /\ \A i \in 1..Len(opHist) :
                 (opHist[i].conn = c /\ ~Settled(opHist[i])) => opHist'[i].status = "ok"
      ]_vars

\* A create_group of an unregistered group has just returned: the group is
\* registered with its creator alone and the response is ready to be written.
C11_Witness ==
    \E c \in Conns :
        /\ pc[c] = "Writing"
        /\ response[c] = Some(GroupResponse("g1", <<"bob">>))
        /\ dispatched[c][Len(dispatched[c])] = CreateGroupMsg("g1", "bob")
        /\ Registered("g1")
        /\ groups["g1"] = [id |-> "g1", members |-> <<"bob">>, creator |-> "bob",
                            messages |-> <<>>]

\* The responses connection c has written, and those among them that answer a
\* message handed to handle_message.
Written(c) == [i \in 1..(Len(outbuf[c]) \div 3) |-> outbuf[c][3 * i - 1].val]
FormatError == Error(<<"Invalid message format">>)
IsAnswer(r) == r # FormatError
Answered(c) == SelectSeq(Written(c), IsAnswer)

\* The response r is one that handle_message builds for the message m.
Answers(m, r) ==
    CASE m.type = "StoreKeyPackage" ->
            r = MessageResponse(TRUE, <<"KeyPackage stored for", m.client_id>>)
      [] m.type = "FetchKeyPackage" ->
            r.type = "KeyPackageResponse" /\ r.client_id = m.client_id
      [] m.type = "ListKeyPackages" -> r.type = "KeyPackageListResponse"
      [] m.type = "CreateGroup" ->
            \/ r.type = "GroupResponse" /\ r.group_id = m.group_id
            \/ r.type = "Error" /\ r.message[1] = "Failed to create group"
      [] m.type = "JoinGroup" ->
            \/ r.type = "GroupResponse" /\ r.group_id = m.group_id
            \/ r.type = "Error" /\ r.message[1] = "Failed to join group"
      [] m.type = "RelayMessage" ->
            \/ r = MessageResponse(TRUE, <<"Message relayed successfully">>)
            \/ r.type = "Error" /\ r.message[1] = "Failed to relay message"
      [] OTHER -> r = Error(<<"Invalid message type for server">>)

\* Connection c has a message in handle_message or its response still to write.
UnderWay(c) ==
    \/ pc[c] \in {"Waiting", "Holding"}
    \/ pc[c] = "Writing" /\ response[c] # Some(FormatError)

Consumes(c) == Len(inbuf'[c]) < Len(inbuf[c])

\* In every state the responses written answer, one for one and in order, the
\* messages dispatched, but for the one under way.
OneResponseEach ==
    \A c \in Conns :
        /\ Len(Answered(c)) + (IF UnderWay(c) THEN 1 ELSE 0) = Len(dispatched[c])
        /\ \A i \in 1..Len(Answered(c)) : Answers(dispatched[c][i], Answered(c)[i])
        /\ pc[c] = "Reading" => (response[c] = None /\ msg[c] = None)

\* C12: a connection reads and dispatches only in Reading, with no message and
\* no response of an earlier read left; it then reads nothing more until the
\* one response to that read has been written, which alone brings it back to
\* Reading; and the responses written answer the messages dispatched one for
\* one and in the order they were received.
C12_Sequential ==
    /\ []OneResponseEach
    /\ [][\A c \in Conns :
            /\ (Consumes(c) \/ dispatched'[c] # dispatched[c])
               => /\ pc[c] = "Reading" /\ Consumes(c)
                  /\ pc'[c] \in {"Waiting", "Holding", "Writing"}
                  /\ Len(dispatched'[c]) <= Len(dispatched[c]) + 1
                  /\ outbuf'[c] = outbuf[c]
            /\ outbuf'[c] # outbuf[c]
               => /\ pc[c] = "Writing" /\ pc'[c] = "Reading"
                  /\ outbuf'[c] = outbuf[c] \o to_vec(response[c][1])
            /\ (pc[c] \in {"Waiting", "Holding", "Writing"} /\ pc'[c] = "Reading")
               => Len(outbuf'[c]) = Len(outbuf[c]) + 3
         ]_vars

\* A connection whose peer wrote three requests ahead has answered the first,
\* has the response to the second still to write, and has the third waiting in
\* its buffer.
C12_Witness ==
    \E c \in Conns :
        /\ sent[c] = <<FetchKeyPackageMsg("alice"), StoreKeyPackageMsg("alice", <<1>>),
                       FetchKeyPackageMsg("alice")>>
        /\ dispatched[c] = SubSeq(sent[c], 1, 2)
        /\ Written(c) = <<KeyPackageResponse("alice", None)>>
        /\ pc[c] = "Writing"
        /\ response[c] = Some(MessageResponse(TRUE, <<"KeyPackage stored for", "alice">>))
        /\ inbuf[c] = to_vec(sent[c][3]) \o <<Newline>>

\* Only a connection that is in an operation holds or waits for a lock, and
\* then only the lock of that operation; whoever waits, waits behind a
\* connection that is in its operation and will return.
NoLockLeft ==
    /\ \A c \in Conns : \A n \in LockNames :
          (c \in Holders(lock[n]) <=> (pc[c] = "Holding" /\ LockOf(msg[c][1]) = n))
          /\ (c \in Waiters(lock[n]) <=> (pc[c] = "Waiting" /\ LockOf(msg[c][1]) = n))
    /\ \A n \in LockNames : Waiters(lock[n]) # {} => Holders(lock[n]) # {}

\* The group g has been created.
Created(g) ==
    \E i \in 1..Len(opHist) :
        opHist[i].req.type = "CreateGroup" /\ opHist[i].req.group_id = g /\ opHist[i].status = "ok"

\* The directory and the registry hold what the operations that have returned
\* put there, whatever became of their connections.
StoreOfCompleted ==
    /\ \A id \in ClientIds : Get(key_packages, id) = LastStored(id)
    /\ \A g \in GroupIds :
          /\ Registered(g) <=> Created(g)
          /\ Registered(g) => groups[g].messages = RelayedInto(g)

\* Connection c ends in this step.
Closes(c) == pc[c] # "Closed" /\ pc'[c] = "Closed"

\* C13: a connection ends only from Reading or Writing, where it holds no lock,
\* and the step in which it ends, like the step in which its peer closes,
\* changes neither the directory, the registry, the locks nor anything of
\* another connection; the directory and the registry hold exactly what the
\* operations that returned produced; and no lock is held or waited for by a
\* connection that is not in an operation.
C13_FailureIsolated ==
    /\ [](NoLockLeft /\ StoreOfCompleted)
    /\ [][\A c \in Conns :
            (Closes(c) \/ peerClosed'[c] # peerClosed[c])
            => /\ Closes(c) => pc[c] \in {"Reading", "Writing"}
               /\ UNCHANGED <<key_packages, groups, lock, opHist>>
               /\ \A d \in Conns \ {c} :
                     /\ pc'[d] = pc[d] /\ inbuf'[d] = inbuf[d] /\ outbuf'[d] = outbuf[d]
                     /\ msg'[d] = msg[d] /\ response'[d] = response[d]
                     /\ peerClosed'[d] = peerClosed[d]
         ]_vars

\* The write of a connection's response has failed after its store_key_package
\* returned, and the other connection has since fetched what it stored and
\* written the response.
C13_Witness ==
    \E c, d \in Conns :
        /\ c # d
        /\ pc[c] = "Closed" /\ ~peerClosed[c]
        /\ dispatched[c] = <<StoreKeyPackageMsg("alice", <<1>>)>>
        /\ Written(c) = <<>> /\ inbuf[c] = <<>>
        /\ dispatched[d] = <<FetchKeyPackageMsg("alice")>>
        /\ Written(d) = <<KeyPackageResponse("alice", Some(<<1>>))>>

\* The operation the request m asks for fails on the registry gs.
DomainError(m, gs) ==
    \/ m.type = "CreateGroup" /\ m.group_id \in DOMAIN gs
    \/ m.type = "JoinGroup" /\ m.group_id \notin DOMAIN gs
    \/ m.type = "RelayMessage"
          /\ (m.group_id \in DOMAIN gs => ~Contains(gs[m.group_id].members, m.sender_id))

\* The response reports the failure of an operation on the registry.
ReportsFailure(r) ==
    /\ r.type = "Error"
    /\ r.message[1] \in {"Failed to create group", "Failed to join group",
                         "Failed to relay message"}
    /\ r.message[2] \in {"Group already exists", "Group not found", "Sender not in group"}

\* C14: an operation that ends in a domain error leaves its connection open
\* with an Error response to write; once that response is written the
\* connection is back in Reading, and the request it reads next goes to
\* handle_message like any other.
C14_DomainErrorKeepsOpen ==
    /\ [](\A c \in Conns : pc[c] # "Closed")
    /\ [][\A c \in Conns :
            /\ (pc[c] = "Holding" /\ pc'[c] # "Holding" /\ DomainError(msg[c][1], groups))
               => /\ pc'[c] = "Writing"
                  /\ ReportsFailure(response'[c][1])
                  /\ groups' = groups
            /\ (pc[c] = "Writing" /\ ReportsFailure(response[c][1]) /\ pc'[c] # "Writing")
               => /\ pc'[c] = "Reading"
                  /\ outbuf'[c] = outbuf[c] \o to_vec(response[c][1])
            /\ (Written(c) # <<>> /\ ReportsFailure(Written(c)[Len(Written(c))])
                   /\ Consumes(c))
               => /\ dispatched'[c] = Append(dispatched[c], sent[c][Len(sent[c])])
                  /\ msg'[c] = Some(sent[c][Len(sent[c])])
                  /\ pc'[c] \in {"Waiting", "Holding"}
         ]_vars

\* A connection has been told that its group does not exist, has then created
\* the group on the same connection, and has now the Error of a relay by a
\* client that is no member to write.
C14_Witness ==
    \E c \in Conns :
        /\ Len(Written(c)) = 2
        /\ Written(c)[1] = Error(<<"Failed to relay message", "Group not found", "g1">>)
        /\ Written(c)[2] = GroupResponse("g1", <<"alice">>)
        /\ pc[c] = "Writing"
        /\ response[c] = Some(Error(<<"Failed to relay message", "Sender not in group", "bob">>))

ResponseTags == VariantTags \ RequestTags
NotARequest == Error(<<"Invalid message type for server">>)

\* C15: a read that delivers a well-formed value of a response variant is
\* handed to handle_message and answered with the Error "Invalid message type
\* for server", without a lock taken and with the directory and the registry
\* unchanged; once the peer has its responses, each response variant it sent
\* was answered by that Error.
C15_ResponseAsRequest ==
    /\ [](\A c \in Conns : Quiet(c) =>
            \A i \in 1..Len(sent[c]) :
                sent[c][i].type \in ResponseTags => Written(c)[i] = NotARequest)
    /\ [][\A c \in Conns :
            (Reads(c) /\ sent[c][Len(sent[c])].type \in ResponseTags)
            => /\ dispatched'[c] = Append(dispatched[c], sent[c][Len(sent[c])])
               /\ response'[c] = Some(NotARequest)
               /\ pc'[c] = "Writing"
               /\ UNCHANGED <<key_packages, groups, lock, opHist, msg>>
         ]_vars

\* With a bundle in the directory, a connection has been sent a GroupResponse
\* and a KeyPackageResponse and has answered both with the Error.
C15_Witness ==
    \E c \in Conns :
        /\ Quiet(c)
        /\ sent[c] = <<GroupResponse("g1", <<"alice">>), KeyPackageResponse("alice", None)>>
        /\ Written(c) = <<NotARequest, NotARequest>>
        /\ key_packages = [x \in {"alice"} |-> <<1>>]
        /\ groups = EmptyMap

\* The locks connection c holds or waits for.
LocksOf(c) == {n \in LockNames : c \in Holders(lock[n]) \cup Waiters(lock[n])}

InOperation(c) == pc[c] \in {"Waiting", "Holding"}

\* C16: no connection ever holds or waits for more than one of the two locks,
\* and every operation that has started (its connection waits for its lock or
\* holds it) returns, its response ready to be written and its lock given up.
C16_NoDeadlock ==
    /\ [](\A c \in Conns : Cardinality(LocksOf(c)) <= 1)
    /\ \A c \in Conns : InOperation(c) ~> (pc[c] = "Writing" /\ LocksOf(c) = {})

\* One connection waits for the directory behind the other, which holds it for
\* a store, while the registry is free.
C16_Witness ==
    \E c, d \in Conns :
        /\ pc[c] = "Holding" /\ msg[c][1].type = "StoreKeyPackage"
        /\ pc[d] = "Waiting" /\ LocksOf(d) = {"key_packages"}
        /\ lock["groups"] = FreeLock
        /\ Registered("g1")

\* Connection c runs a mutation of, or a read of, the structure behind lock n.
Mutates(c, n) ==
    pc[c] = "Holding" /\ LockOf(msg[c][1]) = n /\ ModeOf(msg[c][1]) = "write"
ReadsFrom(c, n) ==
    pc[c] = "Holding" /\ LockOf(msg[c][1]) = n /\ ModeOf(msg[c][1]) = "read"

\* Another connection than c has an operation under way on structure n.
Busy(c, n) == \E d \in Conns \ {c} : InOperation(d) /\ LockOf(msg[d][1]) = n

Exclusive ==
    \A n \in LockNames : \A c, d \in Conns :
        (c # d /\ Mutates(c, n)) => (~Mutates(d, n) /\ ~ReadsFrom(d, n))

\* C17: while a mutation runs on a structure no other mutation and no read
\* runs on it. An operation starts at once if no other connection has an
\* operation under way on the same structure, whatever goes on on the other
\* structure, and a read starts at once also next to reads that run, if no
\* mutation waits.
C17_ReadersWriter ==
    /\ []Exclusive
    /\ [][\A c \in Conns :
            (Reads(c) /\ pc'[c] \in {"Waiting", "Holding"})
            => LET m == msg'[c][1]
                   n == LockOf(m) IN
               /\ ~Busy(c, n) => pc'[c] = "Holding"
               /\ (ModeOf(m) = "read"
                     /\ \A d \in Conns \ {c} :
                           (InOperation(d) /\ LockOf(msg[d][1]) = n) => ReadsFrom(d, n))
                  => pc'[c] = "Holding"
               /\ pc'[c] = "Waiting" => \E d \in Conns \ {c} : pc[d] = "Holding" /\ LockOf(msg[d][1]) = n
         ]_vars

\* Both connections run a read of the directory at once, a fetch and a list,
\* after a store and while a group is registered.
C17_Witness ==
    \E c, d \in Conns :
        /\ ReadsFrom(c, "key_packages") /\ msg[c][1].type = "FetchKeyPackage"
        /\ ReadsFrom(d, "key_packages") /\ msg[d][1].type = "ListKeyPackages"
        /\ "alice" \in DOMAIN key_packages

\* Connection w waits for write access.
WaitsToWrite(w) == pc[w] = "Waiting" /\ ModeOf(msg[w][1]) = "write"

\* The connections queued before w on lock n.
Ahead(w, n) ==
    LET q == lock[n].waitq IN
    {q[i].conn : i \in {k \in 1..Len(q) : \A j \in 1..k : q[j].conn # w}}

\* C18: a mutation that waits for write access is passed by nobody: while it
\* waits, its lock is granted only to connections that queued before it, so
\* that reads arriving later queue behind it; and under fair scheduling every
\* mutation that waits gets the lock and returns.
C18_NoWriterStarvation ==
    /\ [][\A w \in Streams :
            (WaitsToWrite(w) /\ pc'[w] = "Waiting")
            => LET n == LockOf(msg[w][1]) IN
               /\ \A c \in Streams :
                     (c \notin Holders(lock[n]) /\ c \in Holders(lock'[n]))
                     => c \in Ahead(w, n)
               /\ Ahead(w, n)' \subseteq Ahead(w, n)
         ]_vars
    /\ \A w \in Streams : WaitsToWrite(w) ~> pc[w] = "Holding"
    /\ \A w \in Streams : pc[w] = "Holding" ~> pc[w] = "Writing"

\* A store waits behind a fetch that holds the directory, and a fetch that
\* arrived after the store waits behind it.
C18_Witness ==
    \E r, w, s \in Streams :
        /\ lock["key_packages"].readers = {r}
        /\ lock["key_packages"].waitq = <<[conn |-> w, mode |-> "write"],
                                          [conn |-> s, mode |-> "read"]>>
        /\ WaitsToWrite(w)
        /\ pc[s] = "Waiting" /\ msg[s][1].type = "FetchKeyPackage"

IsPrefix(s, t) == Len(s) <= Len(t) /\ SubSeq(t, 1, Len(s)) = s

\* C19: in every step a registered group stays registered and its log before
\* the step is a prefix of its log after it; a relay that succeeds adds exactly
\* its (sender, payload, kind) at the end of the log of its group, also when
\* the log holds that entry already, and no other step changes a log.
C19_AppendOnly ==
    [][/\ \A g \in DOMAIN groups :
            /\ g \in DOMAIN groups'
            /\ IsPrefix(groups[g].messages, groups'[g].messages)
       /\ \A c \in Conns :
            (Running(c, "RelayMessage") /\ pc'[c] = "Writing"
                /\ response'[c] = Some(MessageResponse(TRUE, <<"Message relayed successfully">>)))
            => LET m == msg[c][1] IN
               groups'[m.group_id].messages =
                   Append(groups[m.group_id].messages,
                          <<m.sender_id, m.message, m.message_type>>)
       /\ (\A c \in Conns : ~(Running(c, "RelayMessage") /\ pc'[c] = "Writing"))
            => \A g \in DOMAIN groups : groups'[g].messages = groups[g].messages
      ]_vars

\* The same message has been relayed twice, once from each connection, and the
\* log holds it twice.
C19_Witness ==
    /\ Registered("g1")
    /\ Len(groups["g1"].messages) = 2
    /\ groups["g1"].messages[1] = groups["g1"].messages[2]
    /\ \E i, j \in 1..Len(opHist) :
          /\ i < j
          /\ opHist[i].req.type = "RelayMessage" /\ opHist[j].req = opHist[i].req
          /\ opHist[i].conn # opHist[j].conn

\* The response r has been written on a connection other than c.
AckedElsewhere(c, r) == \E a \in Conns \ {c} : Contains(Written(a), r)

\* C20: once a store of a bundle for an identity has been acknowledged on one
\* connection, a fetch for that identity on another connection returns the
\* bundle, and once the creation of a group has been answered on one
\* connection, a relay into it by its creator on another connection succeeds,
\* whether the first connection is still open or not.
C20_SharedStore ==
    [][\A c \in Conns :
        /\ (Running(c, "FetchKeyPackage") /\ pc'[c] = "Writing"
               /\ AckedElsewhere(c, MessageResponse(TRUE, <<"KeyPackage stored for",
                                                           msg[c][1].client_id>>)))
           => /\ LastStored(msg[c][1].client_id) # None
              /\ response'[c] = Some(KeyPackageResponse(msg[c][1].client_id,
                                                        LastStored(msg[c][1].client_id)))
        /\ (Running(c, "RelayMessage") /\ pc'[c] = "Writing"
               /\ AckedElsewhere(c, GroupResponse(msg[c][1].group_id, <<msg[c][1].sender_id>>)))
           => /\ response'[c] = Some(MessageResponse(TRUE, <<"Message relayed successfully">>))
              /\ groups'[msg[c][1].group_id].messages # groups[msg[c][1].group_id].messages
      ]_vars

\* A connection has stored a bundle and created a group, got both responses
\* and ended when its peer closed; the other connection has relayed a message
\* into the group without waiting and got the success response.
C20_Witness ==
    \E a, b \in Conns :
        /\ pc[a] = "Closed" /\ peerClosed[a]
        /\ Written(a) = <<MessageResponse(TRUE, <<"KeyPackage stored for", "alice">>),
                          GroupResponse("g1", <<"alice">>)>>
        /\ Len(opHist) = 3 /\ opHist[3].conn = b /\ ~opHist[3].waited
        /\ Written(b) = <<MessageResponse(TRUE, <<"Message relayed successfully">>)>>
        /\ Get(key_packages, "alice") = Some(<<1>>)

\* The clients of the joins of group g that succeeded and found their client
\* not yet a member, in the order in which the joins got the write lock.
FirstJoins(g) ==
    LET Is(e) == /\ e.req.type = "JoinGroup" /\ e.req.group_id = g
                 /\ e.status = "ok" /\ ~e.found.member
        js == SelectSeq(opHist, Is) IN
    [i \in 1..Len(js) |-> js[i].req.client_id]

\* C21: the members of a group are its creator followed by the other members
\* in the order of their first successful join, and that is the list a
\* GroupResponse carries; a join of a new member appends it at the end, a join
\* of a member changes nothing.
C21_MemberOrder ==
    /\ [](\A g \in DOMAIN groups :
            groups[g].members = <<groups[g].creator>> \o FirstJoins(g))
    /\ [][\A c \in Conns :
            (Running(c, "JoinGroup") /\ pc'[c] = "Writing"
                /\ Registered(msg[c][1].group_id))
            => LET g == msg[c][1].group_id
                   id == msg[c][1].client_id IN
               /\ groups'[g].members =
                     IF Contains(groups[g].members, id) THEN groups[g].members
                     ELSE Append(groups[g].members, id)
               /\ response'[c] = Some(GroupResponse(g, groups'[g].members))
         ]_vars

\* A group created by bob has been joined by carol and then by alice, and the
\* response to the last join lists them in that order.
C21_Witness ==
    \E c \in Conns :
        /\ Registered("g1")
        /\ groups["g1"].members = <<"bob", "carol", "alice">>
        /\ pc[c] = "Writing"
        /\ response[c] = Some(GroupResponse("g1", <<"bob", "carol", "alice">>))

\* The handler of connection c has returned: it is in no operation and has no
\* response to write.
Terminated(c) ==
    /\ pc[c] = "Closed"
    /\ msg[c] = None /\ response[c] = None
    /\ LocksOf(c) = {}

\* C22: a connection whose peer has closed and that has nothing left to read
\* leaves Reading only for Closed; a step in which a connection ends decodes
\* nothing and writes nothing; and a connection that has ended stays so: it
\* reads no byte that is left in its buffer, dispatches nothing and writes
\* nothing more.
C22_ClosedIsFinal ==
    /\ [](\A c \in Conns : pc[c] = "Closed" => Terminated(c))
    /\ [][\A c \in Conns :
            /\ (pc[c] = "Reading" /\ inbuf[c] = <<>> /\ peerClosed[c] /\ pc'[c] # pc[c])
               => pc'[c] = "Closed"
            /\ Closes(c)
               => /\ pc[c] \in {"Reading", "Writing"}
                  /\ inbuf'[c] = inbuf[c] /\ dispatched'[c] = dispatched[c]
                  /\ outbuf'[c] = outbuf[c]
            /\ pc[c] = "Closed"
               => /\ pc'[c] = "Closed"
                  /\ inbuf'[c] = inbuf[c] /\ dispatched'[c] = dispatched[c]
                  /\ outbuf'[c] = outbuf[c]
         ]_vars

\* A connection has answered one request and has ended on an error with a
\* second request of its peer still unread in its buffer.
C22_Witness ==
    \E c \in Conns :
        /\ pc[c] = "Closed" /\ ~peerClosed[c]
        /\ sent[c] = <<StoreKeyPackageMsg("alice", <<1>>), FetchKeyPackageMsg("alice")>>
        /\ dispatched[c] = <<StoreKeyPackageMsg("alice", <<1>>)>>
        /\ Len(Written(c)) = 1
        /\ inbuf[c] = to_vec(FetchKeyPackageMsg("alice")) \o <<Newline>>

\* The sender of every logged message and the creator are members.
MembersCoverGroup ==
    \A g \in DOMAIN groups :
        /\ \A i \in 1..Len(groups[g].messages) :
              Contains(groups[g].members, groups[g].messages[i][1])
        /\ Contains(groups[g].members, groups[g].creator)
        /\ groups[g].id = g

\* C23: in every state the sender of every entry of a group's log and the
\* group's creator are among its members; and in every step a registered group
\* stays registered, keeps its creator and keeps its members, to which the
\* step may add at the end.
C23_GroupInvariant ==
    /\ []MembersCoverGroup
    /\ [][\A g \in DOMAIN groups :
            /\ g \in DOMAIN groups'
            /\ groups'[g].creator = groups[g].creator
            /\ IsPrefix(groups[g].members, groups'[g].members)
         ]_vars

\* A group created by alice and joined by bob has logged a message of bob.
C23_Witness ==
    /\ Registered("g1")
    /\ groups["g1"].creator = "alice"
    /\ groups["g1"].members = <<"alice", "bob">>
    /\ Len(groups["g1"].messages) = 1
    /\ groups["g1"].messages[1][1] = "bob"

\* The operation of connection c returns in this step.
ReturnsNow(c) == pc[c] = "Holding" /\ pc'[c] = "Writing"

\* C24: an operation on the directory leaves the registry as it was and an
\* operation on the registry leaves the directory as it was; whether an
\* operation on the registry succeeds is decided by the registry alone (a
\* creation succeeds on an unregistered group, a join on a registered one, a
\* relay on a registered one of which the sender is a member), bundle or no
\* bundle; and an operation on a group leaves every other group as it was.
C24_Independent ==
    [][\A c \in Conns :
        ReturnsNow(c)
        => LET m == msg[c][1] IN
           /\ LockOf(m) = "key_packages" => groups' = groups
           /\ LockOf(m) = "groups"
              => /\ key_packages' = key_packages
                 /\ (response'[c][1].type = "Error") <=> DomainError(m, groups)
                 /\ \A h \in DOMAIN groups : h # m.group_id => groups'[h] = groups[h]
                 /\ DOMAIN groups' \subseteq DOMAIN groups \cup {m.group_id}
      ]_vars

\* With no bundle in the directory and a second group registered, a relay into
\* the first group has succeeded and the second group is as it was created.
C24_Witness ==
    \E c \in Conns :
        /\ pc[c] = "Writing"
        /\ response[c] = Some(MessageResponse(TRUE, <<"Message relayed successfully">>))
        /\ key_packages = EmptyMap
        /\ Registered("g1") /\ Len(groups["g1"].messages) = 1
        /\ Registered("g2")
        /\ groups["g2"] = [id |-> "g2", members |-> <<"alice">>, creator |-> "alice",
                           messages |-> <<>>]

====
